---- MODULE Spec2Model ----
(***************************************************************************)
(* A model of the media-transparency explorer of src/main.go: the          *)
(* concurrent quarter loader (loadData, loadMultipleData), the load and    *)
(* reload commands, the query commands top, search and details, and the    *)
(* pure helpers lessLower and isValidQuarter.                              *)
(*                                                                         *)
(* Strings are sequences of Unicode code points (valid UTF-8 text); the    *)
(* byte length Go's len() reports is computed from the code points.        *)
(* Euro amounts are whole numbers, which float32/float64 hold exactly.     *)
(* The goroutine closure of loadMultipleData reads the loop variable of    *)
(* its own iteration (Go 1.22 loop semantics, the first release line       *)
(* after the one that introduced the clear builtin the file uses).         *)
(***************************************************************************)
EXTENDS Integers, Sequences, FiniteSets, TLC

VARIABLES
    pc,               \* position of main: "startup", "call", "wait", "returned", "prompt", "exited", "panicked"
    data,             \* the record store (main's data slice)
    cmd,              \* the command being run or last run: [name, args]
    tasks,            \* the goroutines of the running loadMultipleData call
    errs,             \* loadMultipleData's errs slice
    errorsMutex,      \* 0 when free, else the index of the goroutine holding it
    transactionMutex, \* 0 when free, else the index of the goroutine holding it
    waitGroup,        \* the WaitGroup counter
    before,           \* the store as it was when loadMultipleData was entered
    lastErr,          \* what the last loadMultipleData call returned
    out,              \* what the last command printed
    fa, fb, fres, fpc \* inputs, result and position of a pure-function run

mainVars == <<pc, data, cmd, tasks, errs, errorsMutex, transactionMutex,
              waitGroup, before, lastErr, out>>
fnVars == <<fa, fb, fres, fpc>>
vars == <<pc, data, cmd, tasks, errs, errorsMutex, transactionMutex,
          waitGroup, before, lastErr, out, fa, fb, fres, fpc>>

----------------------------------------------------------------------------
(* Bounds *)

\* longest string compared by lessLower
MaxLen == 2
\* longest quarter string given to loadData on its own
MaxQuarterLen == 5
\* most quarters named in one load, reload or startup
MaxQuarters == 2
\* most records the store holds
MaxStore == 3

----------------------------------------------------------------------------
(* Strings: code points, UTF-8 widths, unicode predicates *)

\* bytes of the UTF-8 encoding of code point r
RuneLen(r) ==
    IF r < 128 THEN 1 ELSE IF r < 2048 THEN 2 ELSE IF r < 65536 THEN 3 ELSE 4

RECURSIVE ByteLen(_)
\* len(s) of a Go string: its length in bytes
ByteLen(s) == IF s = <<>> THEN 0 ELSE RuneLen(Head(s)) + ByteLen(Tail(s))

\* unicode.IsDigit: category Nd (ASCII, Arabic-Indic and fullwidth digits here)
IsDigit(r) == r \in (48..57) \cup (1632..1641) \cup (65296..65305)

\* unicode.ToLower (ASCII and Latin-1 capitals)
ToLower(r) ==
    IF r \in 65..90 THEN r + 32
    ELSE IF r \in 192..222 /\ r # 215 THEN r + 32
    ELSE r

\* strings.ToLower
StringsToLower(s) == [i \in 1..Len(s) |-> ToLower(s[i])]

\* utf8.DecodeRuneInString: the first rune and its width in bytes, width 0 on ""
DecodeRuneInString(s) ==
    IF s = <<>> THEN [r |-> 65533, n |-> 0]
    ELSE [r |-> Head(s), n |-> RuneLen(Head(s))]

RECURSIVE SliceFrom(_, _)
\* s[n:] where n is the byte offset of a rune boundary
SliceFrom(s, n) ==
    IF n <= 0 \/ s = <<>> THEN s ELSE SliceFrom(Tail(s), n - RuneLen(Head(s)))

\* strings.Contains
Contains(s, sub) ==
    \E i \in 0..(Len(s) - Len(sub)) : SubSeq(s, i + 1, i + Len(sub)) = sub

RECURSIVE Join(_)
\* strings.Join(args, " ")
Join(args) ==
    IF args = <<>> THEN <<>>
    ELSE IF Len(args) = 1 THEN args[1]
    ELSE args[1] \o <<32>> \o Join(Tail(args))

RECURSIVE lessLower_NoFold(_, _)
\* lessLower without the two unicode.ToLower calls
lessLower_NoFold(sa, sb) ==
    LET b == DecodeRuneInString(sb)
        a == DecodeRuneInString(sa)
    IN  IF b.n = 0 THEN FALSE
        ELSE IF a.n = 0 THEN TRUE
        ELSE IF a.r # b.r THEN a.r < b.r
        ELSE lessLower_NoFold(SliceFrom(sa, a.n), SliceFrom(sb, b.n))

RECURSIVE lessLower(_, _)
lessLower(sa, sb) ==
    LET b == DecodeRuneInString(sb)
        a == DecodeRuneInString(sa)
        rb == ToLower(b.r)
        ra == ToLower(a.r)
    IN  IF b.n = 0 THEN FALSE
        ELSE IF a.n = 0 THEN TRUE
        ELSE IF ra # rb THEN ra < rb
        ELSE lessLower(SliceFrom(sa, a.n), SliceFrom(sb, b.n))

isValidQuarter(quarter) ==
    IF ByteLen(quarter) # 5 THEN FALSE
    ELSE \A i \in 1..Len(quarter) : IsDigit(quarter[i])

----------------------------------------------------------------------------
(* Records and the upstream dataset *)

transaction(payer, quarter, bekanntgabe, recipient, euro) ==
    [Rechtstraeger |-> payer, Quartal |-> quarter, Bekanntgabe |-> bekanntgabe,
     Medieninhaber |-> recipient, Euro |-> euro]

\* the zero value of the transaction struct
zeroTransaction == transaction(<<>>, <<>>, 0, <<>>, 0)

getRechtstraeger(t) == t.Rechtstraeger

getMedieninhaber(t) == t.Medieninhaber

\* "20231", "20232", "20233" and the malformed "2023"
Q1 == <<50, 48, 50, 51, 49>>
Q2 == <<50, 48, 50, 51, 50>>
Q3 == <<50, 48, 50, 51, 51>>
QBad == <<50, 48, 50, 51>>
Quarters == {Q1, Q2, Q3, QBad}

\* payers "A" and "B", recipients "x" and "Y"
NameA == <<65>>
NameB == <<66>>
NameX == <<120>>
NameY == <<89>>

\* what the data.rtr.at endpoint answers for a quarter (the Data array)
Upstream(quarter) ==
    IF quarter = Q1 THEN << transaction(NameA, Q1, 2, NameX, 10),
                            transaction(NameB, Q1, 2, NameX, 30) >>
    ELSE IF quarter = Q2 THEN << transaction(NameA, Q2, 4, NameY, 5) >>
    ELSE IF quarter = Q3 THEN << transaction(NameB, Q3, 4, NameY, 5) >>
    ELSE <<>>

\* the nil error value
nilError == [kind |-> "nil"]

\* loadData: ok is whether http.Get, io.ReadAll and json.Unmarshal all succeed;
\* requested records whether http.Get was called
loadData(quarter, ok) ==
    IF ~isValidQuarter(quarter)
    THEN [transactions |-> <<>>, err |-> [kind |-> "invalid_quarter", quarter |-> quarter],
          requested |-> FALSE]
    ELSE IF ~ok
    THEN [transactions |-> <<>>, err |-> [kind |-> "load_failed", quarter |-> quarter],
          requested |-> TRUE]
    ELSE [transactions |-> Upstream(quarter), err |-> nilError, requested |-> TRUE]

\* errors.Join: nil when no non-nil error is given
errorsJoin(es) ==
    LET nonNil == SelectSeq(es, LAMBDA e : e # nilError)
    IN  IF nonNil = <<>> THEN nilError ELSE [kind |-> "joined", causes |-> nonNil]

\* what nothing printed looks like
noOutput == [msg |-> "none", fault |-> "none", headers |-> 0, sections |-> <<>>]

\* fmt.Printf("%v\n", err) of loadFeature.Run and of main
printedError(err) == [noOutput EXCEPT !.msg = IF err = nilError THEN "none" ELSE "error"]

\* the clear builtin on a slice: every element set to the zero value, length kept
clear(s) == [i \in 1..Len(s) |-> zeroTransaction]

\* the lists of quarters a command line can name
QuarterLists == UNION {[1..n -> Quarters] : n \in 0..MaxQuarters}

RECURSIVE UpstreamSize(_)
\* records the quarters of a list can deliver
UpstreamSize(qs) ==
    IF qs = <<>> THEN 0 ELSE Len(Upstream(Head(qs))) + UpstreamSize(Tail(qs))

----------------------------------------------------------------------------
(* loadMultipleData *)

\* loadMultipleData's entry without the len(quarters) == 0 check
loadMultipleData_NoEmptyCheck ==
    /\ pc = "call"
    /\ before' = data
    /\ errs' = <<>>
    /\ errorsMutex' = 0
    /\ transactionMutex' = 0
    /\ waitGroup' = Len(cmd.args)
    /\ tasks' = [i \in 1..Len(cmd.args) |->
                    [quarter |-> cmd.args[i], pc |-> "loadData",
                     transactions |-> <<>>, err |-> nilError, local |-> <<>>]]
    /\ pc' = "wait"
    /\ UNCHANGED <<data, cmd, lastErr, out, fnVars>>

\* lines 187-209: the empty check, then one goroutine per quarter
loadMultipleData ==
    /\ pc = "call"
    /\ before' = data
    /\ errs' = <<>>
    /\ errorsMutex' = 0
    /\ transactionMutex' = 0
    /\ IF Len(cmd.args) = 0
       THEN /\ lastErr' = [kind |-> "no_quarters"]
            /\ tasks' = <<>>
            /\ waitGroup' = 0
            /\ pc' = "returned"
       ELSE /\ waitGroup' = Len(cmd.args)
            /\ tasks' = [i \in 1..Len(cmd.args) |->
                            [quarter |-> cmd.args[i], pc |-> "loadData",
                             transactions |-> <<>>, err |-> nilError, local |-> <<>>]]
            /\ pc' = "wait"
            /\ UNCHANGED lastErr
    /\ UNCHANGED <<data, cmd, out, fnVars>>

\* line 198: the goroutine calls loadData
goLoadData(i) ==
    /\ pc = "wait"
    /\ i \in DOMAIN tasks
    /\ tasks[i].pc = "loadData"
    /\ \E ok \in BOOLEAN :
         LET r == loadData(tasks[i].quarter, ok)
         IN  tasks' = [tasks EXCEPT ![i].transactions = r.transactions,
                                    ![i].err = r.err,
                                    ![i].pc = IF r.err # nilError THEN "lockErrors"
                                              ELSE "lockTransactions"]
    /\ UNCHANGED <<pc, data, cmd, errs, errorsMutex, transactionMutex, waitGroup,
                   before, lastErr, out, fnVars>>

\* the failure path taking the store's lock as well: one lock for both lists
goLockErrors_SharedLock(i) ==
    /\ pc = "wait"
    /\ i \in DOMAIN tasks
    /\ tasks[i].pc = "lockErrors"
    /\ errorsMutex = 0
    /\ transactionMutex = 0
    /\ errorsMutex' = i
    /\ tasks' = [tasks EXCEPT ![i].pc = "appendErr"]
    /\ UNCHANGED <<pc, data, cmd, errs, transactionMutex, waitGroup, before,
                   lastErr, out, fnVars>>

\* line 200: errorsMutex.Lock()
goLockErrors(i) ==
    /\ pc = "wait"
    /\ i \in DOMAIN tasks
    /\ tasks[i].pc = "lockErrors"
    /\ errorsMutex = 0
    /\ errorsMutex' = i
    /\ tasks' = [tasks EXCEPT ![i].pc = "appendErr"]
    /\ UNCHANGED <<pc, data, cmd, errs, transactionMutex, waitGroup, before,
                   lastErr, out, fnVars>>

\* line 201: errs = append(errs, err)
goAppendErr(i) ==
    /\ pc = "wait"
    /\ i \in DOMAIN tasks
    /\ tasks[i].pc = "appendErr"
    /\ errs' = Append(errs, tasks[i].err)
    /\ tasks' = [tasks EXCEPT ![i].pc = "unlockErrors"]
    /\ UNCHANGED <<pc, data, cmd, errorsMutex, transactionMutex, waitGroup, before,
                   lastErr, out, fnVars>>

\* lines 202-203 and the deferred waitGroup.Done()
goUnlockErrors(i) ==
    /\ pc = "wait"
    /\ i \in DOMAIN tasks
    /\ tasks[i].pc = "unlockErrors"
    /\ errorsMutex' = 0
    /\ waitGroup' = waitGroup - 1
    /\ tasks' = [tasks EXCEPT ![i].pc = "done"]
    /\ UNCHANGED <<pc, data, cmd, errs, transactionMutex, before, lastErr, out, fnVars>>

\* transactionMutex.Lock() that never waits
goLockTransactions_NoWait(i) ==
    /\ pc = "wait"
    /\ i \in DOMAIN tasks
    /\ tasks[i].pc = "lockTransactions"
    /\ transactionMutex' = i
    /\ tasks' = [tasks EXCEPT ![i].pc = "readData"]
    /\ UNCHANGED <<pc, data, cmd, errs, errorsMutex, waitGroup, before,
                   lastErr, out, fnVars>>

\* line 205: transactionMutex.Lock()
goLockTransactions(i) ==
    /\ pc = "wait"
    /\ i \in DOMAIN tasks
    /\ tasks[i].pc = "lockTransactions"
    /\ transactionMutex = 0
    /\ transactionMutex' = i
    /\ tasks' = [tasks EXCEPT ![i].pc = "readData"]
    /\ UNCHANGED <<pc, data, cmd, errs, errorsMutex, waitGroup, before,
                   lastErr, out, fnVars>>

\* line 207, first half: append reads the slice header *data
goReadData(i) ==
    /\ pc = "wait"
    /\ i \in DOMAIN tasks
    /\ tasks[i].pc = "readData"
    /\ tasks' = [tasks EXCEPT ![i].local = data, ![i].pc = "writeData"]
    /\ UNCHANGED <<pc, data, cmd, errs, errorsMutex, transactionMutex, waitGroup,
                   before, lastErr, out, fnVars>>

\* line 207, second half: the grown slice is stored into *data
goWriteData(i) ==
    /\ pc = "wait"
    /\ i \in DOMAIN tasks
    /\ tasks[i].pc = "writeData"
    /\ data' = tasks[i].local \o tasks[i].transactions
    /\ tasks' = [tasks EXCEPT ![i].local = <<>>, ![i].pc = "unlockTransactions"]
    /\ UNCHANGED <<pc, cmd, errs, errorsMutex, transactionMutex, waitGroup,
                   before, lastErr, out, fnVars>>

\* the deferred transactionMutex.Unlock() and waitGroup.Done()
goUnlockTransactions(i) ==
    /\ pc = "wait"
    /\ i \in DOMAIN tasks
    /\ tasks[i].pc = "unlockTransactions"
    /\ transactionMutex' = 0
    /\ waitGroup' = waitGroup - 1
    /\ tasks' = [tasks EXCEPT ![i].pc = "done"]
    /\ UNCHANGED <<pc, data, cmd, errs, errorsMutex, before, lastErr, out, fnVars>>

\* lines 210-212: waitGroup.Wait() returns and the errors are joined
waitAndJoin ==
    /\ pc = "wait"
    /\ waitGroup = 0
    /\ lastErr' = errorsJoin(errs)
    /\ pc' = "returned"
    /\ UNCHANGED <<data, cmd, tasks, errs, errorsMutex, transactionMutex, waitGroup,
                   before, out, fnVars>>

\* lines 222-224 and 427-429: the caller prints the error, if any, and main goes
\* to the prompt; loadMultipleData's locals are gone
loadReturn ==
    /\ pc = "returned"
    /\ out' = printedError(lastErr)
    /\ pc' = "prompt"
    /\ tasks' = <<>>
    /\ errs' = <<>>
    /\ errorsMutex' = 0
    /\ transactionMutex' = 0
    /\ waitGroup' = 0
    /\ before' = <<>>
    /\ lastErr' = nilError
    /\ UNCHANGED <<data, cmd, fnVars>>

----------------------------------------------------------------------------
(* main, load, reload, exit *)

\* lines 423-426: main calls loadMultipleData on the process arguments
mainStartup ==
    /\ pc = "startup"
    /\ \E qs \in QuarterLists :
         /\ UpstreamSize(qs) <= MaxStore
         /\ cmd' = [name |-> "startup", args |-> qs]
    /\ pc' = "call"
    /\ UNCHANGED <<data, tasks, errs, errorsMutex, transactionMutex, waitGroup,
                   before, lastErr, out, fnVars>>

\* loadFeature.Run up to its call of loadMultipleData
loadRun ==
    /\ pc = "prompt"
    /\ \E qs \in QuarterLists :
         /\ Len(data) + UpstreamSize(qs) <= MaxStore
         /\ cmd' = [name |-> "load", args |-> qs]
    /\ pc' = "call"
    /\ out' = noOutput
    /\ UNCHANGED <<data, tasks, errs, errorsMutex, transactionMutex, waitGroup,
                   before, lastErr, fnVars>>

\* reloadFeature.Run up to its call of loadMultipleData: clear, then load
reloadRun ==
    /\ pc = "prompt"
    /\ \E qs \in QuarterLists :
         /\ Len(data) + UpstreamSize(qs) <= MaxStore
         /\ cmd' = [name |-> "reload", args |-> qs]
    /\ data' = clear(data)
    /\ pc' = "call"
    /\ out' = noOutput
    /\ UNCHANGED <<tasks, errs, errorsMutex, transactionMutex, waitGroup,
                   before, lastErr, fnVars>>

\* exitFeature.Run: isRunning becomes false and the loop of main ends
exitRun ==
    /\ pc = "prompt"
    /\ cmd' = [name |-> "exit", args |-> <<>>]
    /\ out' = noOutput
    /\ pc' = "exited"
    /\ UNCHANGED <<data, tasks, errs, errorsMutex, transactionMutex, waitGroup,
                   before, lastErr, fnVars>>

----------------------------------------------------------------------------
(* Command arguments *)

\* "payers", "recipients", "Payers", "foo"
StrPayers == <<112, 97, 121, 101, 114, 115>>
StrRecipients == <<114, 101, 99, 105, 112, 105, 101, 110, 116, 115>>
StrPayersCap == <<80, 97, 121, 101, 114, 115>>
StrFoo == <<102, 111, 111>>
RoleTokens == {StrPayers, StrRecipients, StrPayersCap, StrFoo}

\* "0", "1", "2", "x", "256"
AmountTokens == {<<48>>, <<49>>, <<50>>, <<120>>, <<50, 53, 54>>}
\* "2", "4", "31", "3", "x"
ParagraphTokens == {<<50>>, <<52>>, <<51, 49>>, <<51>>, <<120>>}
\* "a", "z"
TermTokens == {<<97>>, <<122>>}
\* "A", "x", "zz"
OrganizationTokens == {NameA, NameX, <<122, 122>>}

TopArgs ==
    {<<>>}
    \cup {<<n, r>> : n \in AmountTokens, r \in RoleTokens}
    \cup {<<n, r, p>> : n \in AmountTokens, r \in RoleTokens, p \in ParagraphTokens}

SearchArgs ==
    {<<>>}
    \cup {<<r>> : r \in RoleTokens}
    \cup {<<r, t>> : r \in RoleTokens, t \in TermTokens}
    \cup {<<r, t, u>> : r \in RoleTokens, t \in TermTokens, u \in TermTokens}

DetailsArgs ==
    {<<>>}
    \cup {<<r>> : r \in RoleTokens}
    \cup {<<r, o>> : r \in RoleTokens, o \in OrganizationTokens}

RECURSIVE DecimalValue(_, _)
\* the value of a string of ASCII digits, acc the value of the digits already read
DecimalValue(s, acc) ==
    IF s = <<>> THEN acc ELSE DecimalValue(Tail(s), acc * 10 + (Head(s) - 48))

\* strconv.ParseUint(s, 10, 8)
ParseUint(s) ==
    IF s = <<>> \/ \E i \in 1..Len(s) : s[i] \notin 48..57
    THEN [val |-> 0, err |-> "syntax"]
    ELSE IF DecimalValue(s, 0) > 255
    THEN [val |-> 255, err |-> "range"]
    ELSE [val |-> DecimalValue(s, 0), err |-> "nil"]

----------------------------------------------------------------------------
(* Grouping, ranking, widths *)

\* a call of a mapper variable holding getRechtstraeger or getMedieninhaber
callMapper(mapper, t) ==
    IF mapper = "getRechtstraeger" THEN getRechtstraeger(t) ELSE getMedieninhaber(t)

\* m[key] = value on a Go map
MapPut(m, key, value) ==
    [k \in (DOMAIN m) \cup {key} |-> IF k = key THEN value ELSE m[k]]

\* the empty Go map
emptyMap == [k \in {} |-> 0]

RECURSIVE topGroups_NoFilter(_, _, _, _)
\* the grouping loop of top without the Bekanntgabe test
topGroups_NoFilter(store, mapper, bekanntgabe, m) ==
    IF store = <<>> THEN m
    ELSE LET t == Head(store)
             key == callMapper(mapper, t)
         IN  IF key \in DOMAIN m
             THEN topGroups_NoFilter(Tail(store), mapper, bekanntgabe,
                                     MapPut(m, key, m[key] + t.Euro))
             ELSE topGroups_NoFilter(Tail(store), mapper, bekanntgabe,
                                     MapPut(m, key, t.Euro))

RECURSIVE topGroups(_, _, _, _)
\* lines 286-296: the grouping loop of top over the records not yet visited
topGroups(store, mapper, bekanntgabe, m) ==
    IF store = <<>> THEN m
    ELSE LET t == Head(store)
             key == callMapper(mapper, t)
         IN  IF t.Bekanntgabe # bekanntgabe
             THEN topGroups(Tail(store), mapper, bekanntgabe, m)
             ELSE IF key \in DOMAIN m
             THEN topGroups(Tail(store), mapper, bekanntgabe,
                            MapPut(m, key, m[key] + t.Euro))
             ELSE topGroups(Tail(store), mapper, bekanntgabe,
                            MapPut(m, key, t.Euro))

\* the orders in which ranging over a set can deliver its elements
Orders(S) ==
    {f \in [1..Cardinality(S) -> S] : \A i, j \in DOMAIN f : i # j => f[i] # f[j]}

\* lines 297-301: the pairs of a map after sort.Slice by descending value; the
\* map's iteration order and the unstable sort leave the order of ties open
sortedPairs(m) ==
    {[i \in DOMAIN f |-> [str |-> f[i], value |-> m[f[i]]]] :
        f \in {g \in Orders(DOMAIN m) :
                  \A i, j \in DOMAIN g : i < j => ~(m[g[j]] > m[g[i]])}}

\* the strings of a set after sort.Slice by lessLower
sortedStrings(S) ==
    {[i \in DOMAIN f |-> [str |-> f[i], value |-> 0]] :
        f \in {g \in Orders(S) :
                  \A i, j \in DOMAIN g : i < j => ~lessLower(g[j], g[i])}}

RECURSIVE intLog10(_)
\* int(math.Log10(v)) for a whole v >= 1
intLog10(v) == IF v < 10 THEN 0 ELSE 1 + intLog10(v \div 10)

RECURSIVE maxStringLength(_, _)
\* lines 303-309: the longest len(pair.str) of the pairs not yet visited, at least longest
maxStringLength(slice, longest) ==
    IF slice = <<>> THEN longest
    ELSE maxStringLength(Tail(slice),
                         IF ByteLen(Head(slice).str) > longest
                         THEN ByteLen(Head(slice).str) ELSE longest)

\* one printed block of ranked rows with its two column widths
section(rows, strWidth, floatWidth) ==
    [rows |-> rows, strWidth |-> strWidth, floatWidth |-> floatWidth]

\* a command that printed only a message
message(msg) == [noOutput EXCEPT !.msg = msg]

\* a command that panicked after printing msg
panic(msg, fault) == [noOutput EXCEPT !.msg = msg, !.fault = fault]

----------------------------------------------------------------------------
(* top, search, details *)

\* lines 297-313 of topFeature.Run: rank the groups, index slice[0], cut slice[0:amount]
\* (the slice's capacity is len(m)), print the rows
topPrint(m, amount) ==
    IF DOMAIN m = {} THEN {panic("none", "index_out_of_range")}
    ELSE IF amount > Cardinality(DOMAIN m) THEN {panic("none", "slice_bounds_out_of_range")}
    ELSE {[noOutput EXCEPT !.sections =
              <<section(SubSeq(slice, 1, amount),
                        maxStringLength(slice, 0),
                        intLog10(slice[1].value) + 1)>>] : slice \in sortedPairs(m)}

\* topFeature.Run: the outputs it can produce on arguments args and store store
topRun(args, store) ==
    IF Len(args) # 3 THEN {message("wrong_syntax")}
    ELSE LET amount == ParseUint(args[1])
             role == StringsToLower(args[2])
             bekanntgabe == ParseUint(args[3])
             mapper == IF role = StrPayers THEN "getRechtstraeger" ELSE "getMedieninhaber"
         IN  IF amount.err # "nil" THEN {message("invalid_parameter_1")}
             ELSE IF role \notin {StrPayers, StrRecipients} THEN {message("invalid_parameter_2")}
             ELSE IF bekanntgabe.err # "nil" THEN {message("invalid_parameter_3")}
             ELSE IF amount.val <= 0 THEN {message("invalid_amount")}
             ELSE IF bekanntgabe.val \notin {2, 4, 31} THEN {message("invalid_bekanntgabe")}
             ELSE topPrint(topGroups(store, mapper, bekanntgabe.val, emptyMap), amount.val)

\* lines 336-342 of searchFeature.Run: the distinct names containing the term
searchSet(store, mapper, searchTerm) ==
    {callMapper(mapper, store[i]) : i \in
        {j \in 1..Len(store) :
            Contains(StringsToLower(callMapper(mapper, store[j])), searchTerm)}}

\* searchFeature.Run: an unknown role prints a message and goes on with a nil mapper,
\* whose first call panics
searchRun(args, store) ==
    IF Len(args) < 2 THEN {message("too_few_parameters")}
    ELSE LET por == args[1]
             mapper == IF por = StrPayers THEN "getRechtstraeger"
                       ELSE IF por = StrRecipients THEN "getMedieninhaber"
                       ELSE "nil"
             msg == IF mapper = "nil" THEN "invalid_parameter_2" ELSE "none"
             searchTerm == StringsToLower(Join(Tail(args)))
         IN  IF mapper = "nil" /\ store # <<>> THEN {panic(msg, "nil_function_call")}
             ELSE IF mapper = "nil" THEN {[message(msg) EXCEPT !.sections = <<section(<<>>, 0, 0)>>]}
             ELSE {[noOutput EXCEPT !.sections = <<section(slice, 0, 0)>>] :
                      slice \in sortedStrings(searchSet(store, mapper, searchTerm))}

\* printAll: nothing for an empty map, else every pair ranked by descending value
printAll(m) ==
    IF Cardinality(DOMAIN m) = 0 THEN {section(<<>>, 0, 0)}
    ELSE {section(slice, maxStringLength(slice, 0), intLog10(slice[1].value) + 1) :
             slice \in sortedPairs(m)}

RECURSIVE detailsGroups(_, _, _, _, _)
\* lines 407-412: the loop of details over the records not yet visited; m maps
\* 2, 4 and 31 to their maps (a record of another paragraph is handled by the caller)
detailsGroups(store, mapper, reverseMapper, organization, m) ==
    IF store = <<>> THEN m
    ELSE LET t == Head(store)
             a == m[t.Bekanntgabe]
             key == callMapper(reverseMapper, t)
         IN  IF callMapper(mapper, t) = organization
             THEN detailsGroups(Tail(store), mapper, reverseMapper, organization,
                      [m EXCEPT ![t.Bekanntgabe] =
                          MapPut(a, key, (IF key \in DOMAIN a THEN a[key] ELSE 0) + t.Euro)])
             ELSE detailsGroups(Tail(store), mapper, reverseMapper, organization, m)

\* detailsFeature.Run: a matching record whose paragraph has no map is an
\* assignment to an entry of a nil map
detailsRun(args, store) ==
    IF Len(args) < 1 THEN {message("too_few_parameters")}
    ELSE LET por == args[1]
             mapper == IF por = StrPayers THEN "getRechtstraeger" ELSE "getMedieninhaber"
             reverseMapper == IF por = StrPayers THEN "getMedieninhaber" ELSE "getRechtstraeger"
             organization == Join(Tail(args))
             empty == [b \in {2, 4, 31} |-> emptyMap]
         IN  IF por \notin {StrPayers, StrRecipients} THEN {message("invalid_parameter_2")}
             ELSE IF \E i \in 1..Len(store) :
                        /\ callMapper(mapper, store[i]) = organization
                        /\ store[i].Bekanntgabe \notin {2, 4, 31}
             THEN {panic("none", "nil_map_assignment")}
             ELSE LET m == detailsGroups(store, mapper, reverseMapper, organization, empty)
                  IN  {[noOutput EXCEPT !.headers = 3, !.sections = <<s2, s4, s31>>] :
                          s2 \in printAll(m[2]), s4 \in printAll(m[4]), s31 \in printAll(m[31])}

\* the "top" command at the prompt
topCmd ==
    /\ pc = "prompt"
    /\ \E args \in TopArgs :
         /\ cmd' = [name |-> "top", args |-> args]
         /\ \E o \in topRun(args, data) : out' = o
    /\ pc' = IF out'.fault # "none" THEN "panicked" ELSE "prompt"
    /\ UNCHANGED <<data, tasks, errs, errorsMutex, transactionMutex, waitGroup,
                   before, lastErr, fnVars>>

\* the "search" command at the prompt
searchCmd ==
    /\ pc = "prompt"
    /\ \E args \in SearchArgs :
         /\ cmd' = [name |-> "search", args |-> args]
         /\ \E o \in searchRun(args, data) : out' = o
    /\ pc' = IF out'.fault # "none" THEN "panicked" ELSE "prompt"
    /\ UNCHANGED <<data, tasks, errs, errorsMutex, transactionMutex, waitGroup,
                   before, lastErr, fnVars>>

\* the "details" command at the prompt
detailsCmd ==
    /\ pc = "prompt"
    /\ \E args \in DetailsArgs :
         /\ cmd' = [name |-> "details", args |-> args]
         /\ \E o \in detailsRun(args, data) : out' = o
    /\ pc' = IF out'.fault # "none" THEN "panicked" ELSE "prompt"
    /\ UNCHANGED <<data, tasks, errs, errorsMutex, transactionMutex, waitGroup,
                   before, lastErr, fnVars>>

----------------------------------------------------------------------------
(* The program *)

fnIdle == fa = <<>> /\ fb = <<>> /\ fres = [kind |-> "none"] /\ fpc = "idle"

mainInit ==
    /\ pc = "startup"
    /\ data = <<>>
    /\ cmd = [name |-> "none", args |-> <<>>]
    /\ tasks = <<>>
    /\ errs = <<>>
    /\ errorsMutex = 0
    /\ transactionMutex = 0
    /\ waitGroup = 0
    /\ before = <<>>
    /\ lastErr = nilError
    /\ out = noOutput

Init == mainInit /\ fnIdle

goroutine(i) ==
    \/ goLoadData(i)
    \/ goLockErrors(i)
    \/ goAppendErr(i)
    \/ goUnlockErrors(i)
    \/ goLockTransactions(i)
    \/ goReadData(i)
    \/ goWriteData(i)
    \/ goUnlockTransactions(i)

Next ==
    \/ mainStartup
    \/ loadMultipleData
    \/ \E i \in 1..(MaxQuarters + 1) : goroutine(i)
    \/ waitAndJoin
    \/ loadReturn
    \/ loadRun
    \/ reloadRun
    \/ exitRun
    \/ topCmd
    \/ searchCmd
    \/ detailsCmd

Spec == Init /\ [][Next]_vars

----------------------------------------------------------------------------
(* lessLower and loadData on their own *)

\* "2", "A", "B", "a", "b"
LessRunes == {50, 65, 66, 97, 98}
LessStrings == UNION {[1..n -> LessRunes] : n \in 0..MaxLen}

\* "0", "9", "a" and the two-byte Arabic-Indic digit zero
QuarterRunes == {48, 57, 97, 1632}
QuarterStrings == UNION {[1..n -> QuarterRunes] : n \in 0..MaxQuarterLen}

InitLess ==
    /\ mainInit
    /\ fa \in LessStrings
    /\ fb \in LessStrings
    /\ fres = [kind |-> "none"]
    /\ fpc = "input"

\* one call lessLower(fa, fb)
lessLowerCall ==
    /\ fpc = "input"
    /\ fres' = [kind |-> "lessLower", value |-> lessLower(fa, fb)]
    /\ fpc' = "done"
    /\ UNCHANGED <<fa, fb, mainVars>>

NextLess == lessLowerCall

SpecLess == InitLess /\ [][NextLess]_vars

InitQuarter ==
    /\ mainInit
    /\ fa \in QuarterStrings
    /\ fb = <<>>
    /\ fres = [kind |-> "none"]
    /\ fpc = "input"

\* one call isValidQuarter(fa)
isValidQuarterCall ==
    /\ fpc = "input"
    /\ fres' = [kind |-> "isValidQuarter", value |-> isValidQuarter(fa)]
    /\ fpc' = "done"
    /\ UNCHANGED <<fa, fb, mainVars>>

\* one call loadData(fa)
loadDataCall ==
    /\ fpc = "input"
    /\ \E ok \in BOOLEAN : fres' = [kind |-> "loadData", value |-> loadData(fa, ok)]
    /\ fpc' = "done"
    /\ UNCHANGED <<fa, fb, mainVars>>

NextQuarter == isValidQuarterCall \/ loadDataCall

SpecQuarter == InitQuarter /\ [][NextQuarter]_vars

----------------------------------------------------------------------------
(* Vocabulary of the properties *)

RECURSIVE Concat(_, _)
\* the batches of the goroutines order[1], order[2], ... one after the other
Concat(order, batch) ==
    IF order = <<>> THEN <<>>
    ELSE batch[Head(order)] \o Concat(Tail(order), batch)

\* goroutines whose load succeeded, and those whose load failed
Succeeded == {i \in DOMAIN tasks : tasks[i].pc # "loadData" /\ tasks[i].err = nilError}
Failed == {i \in DOMAIN tasks : tasks[i].pc # "loadData" /\ tasks[i].err # nilError}

\* goroutines whose batch has been stored
Stored == {i \in Succeeded : tasks[i].pc \in {"unlockTransactions", "done"}}

\* goroutines between transactionMutex.Lock() and Unlock()
InStoreSection ==
    {i \in DOMAIN tasks : tasks[i].pc \in {"readData", "writeData", "unlockTransactions"}}

\* what the upstream holds for each goroutine's quarter
FreshBatch == [i \in DOMAIN tasks |-> Upstream(tasks[i].quarter)]

\* store is head followed by the whole batches of the goroutines in S, in some order
WholeBatches(store, head, S) ==
    \E order \in Orders(S) : store = head \o Concat(order, FreshBatch)

\* the field a role groups by
RoleKey(role, t) ==
    IF StringsToLower(role) = StrPayers THEN t.Rechtstraeger ELSE t.Medieninhaber

\* the groups a paragraph has under a role
GroupKeys(store, role, paragraph) ==
    {RoleKey(role, store[i]) : i \in {j \in 1..Len(store) : store[j].Bekanntgabe = paragraph}}

RECURSIVE GroupSum(_, _, _, _, _)
\* the sum of the amounts of the first n records of the paragraph with the key
GroupSum(store, role, paragraph, key, n) ==
    IF n = 0 THEN 0
    ELSE GroupSum(store, role, paragraph, key, n - 1)
         + (IF store[n].Bekanntgabe = paragraph /\ RoleKey(role, store[n]) = key
            THEN store[n].Euro ELSE 0)

\* the last command was top with three well-formed arguments
TopValid ==
    /\ cmd.name = "top"
    /\ Len(cmd.args) = 3
    /\ ParseUint(cmd.args[1]).err = "nil"
    /\ ParseUint(cmd.args[1]).val >= 1
    /\ StringsToLower(cmd.args[2]) \in {StrPayers, StrRecipients}
    /\ ParseUint(cmd.args[3]).err = "nil"
    /\ ParseUint(cmd.args[3]).val \in {2, 4, 31}

TopN == ParseUint(cmd.args[1]).val
TopParagraph == ParseUint(cmd.args[3]).val
TopKeys == GroupKeys(data, cmd.args[2], TopParagraph)
TopSum(key) == GroupSum(data, cmd.args[2], TopParagraph, key, Len(data))

\* every row the last command printed, over all its sections
PrintedRows == {out.sections[i].rows[j] : <<i, j>> \in
                   {<<i, j>> \in (1..3) \X (1..8) :
                       i <= Len(out.sections) /\ j <= Len(out.sections[i].rows)}}

\* the last command was top, search or details with arguments that fail validation
ArgumentsInvalid ==
    \/ /\ cmd.name = "top"
       /\ ~TopValid
    \/ /\ cmd.name = "search"
       /\ \/ Len(cmd.args) < 2
          \/ cmd.args[1] \notin {StrPayers, StrRecipients}
    \/ /\ cmd.name = "details"
       /\ \/ Len(cmd.args) < 1
          \/ cmd.args[1] \notin {StrPayers, StrRecipients}

\* the last command was details with a role and an organization
DetailsValid ==
    /\ cmd.name = "details"
    /\ Len(cmd.args) >= 1
    /\ cmd.args[1] \in {StrPayers, StrRecipients}

\* the counterparties of the organization under a paragraph
DetailsKeys(paragraph) ==
    {RoleKey(IF cmd.args[1] = StrPayers THEN StrRecipients ELSE StrPayers, data[i]) :
        i \in {j \in 1..Len(data) :
                  /\ data[j].Bekanntgabe = paragraph
                  /\ RoleKey(cmd.args[1], data[j]) = Join(Tail(cmd.args))}}

\* the store of the example: (A,10,§2), (B,30,§2), (A,5,§4)
ExampleStore == Upstream(Q1) \o Upstream(Q2)

\* every code point is an ASCII digit 0-9
AllDecimalDigits(str) == \A i \in 1..Len(str) : str[i] \in 48..57

----------------------------------------------------------------------------
(* Properties *)

\* C1: when loadMultipleData returns from a non-empty list of k quarters of which
\* f loads failed, the store is what it was at the call followed by the whole
\* batches of the k-f successful loads, each once, in some order, and the joined
\* error has exactly f causes, one per failed quarter (no error when f = 0).
C1_LoadUnionAndJoinedError ==
    (pc = "returned" /\ Len(cmd.args) > 0) =>
        /\ Succeeded \cup Failed = DOMAIN tasks
        /\ Len(tasks) = Len(cmd.args)
        /\ WholeBatches(data, before, Succeeded)
        /\ IF Failed = {} THEN lastErr = nilError
           ELSE /\ lastErr.kind = "joined"
                /\ Len(lastErr.causes) = Cardinality(Failed)
                /\ \E order \in Orders(Failed) :
                      \A j \in 1..Len(order) :
                          lastErr.causes[j].quarter = tasks[order[j]].quarter

\* a call returned with one failed and one successful load on a non-empty store
C1_Witness ==
    /\ pc = "returned"
    /\ before # <<>>
    /\ Cardinality(Failed) = 1
    /\ Cardinality(Succeeded) = 1
    /\ Len(data) > Len(before)

\* C2 (as claimed): after reload q1..qk the store is exactly what a load of
\* q1..qk into an empty store produces: nothing of the previous content and no
\* placeholder remains, and the length is the number of freshly loaded records.
C2_ReloadLeavesNoResidue ==
    (pc = "returned" /\ cmd.name = "reload" /\ Len(cmd.args) > 0) =>
        /\ WholeBatches(data, <<>>, Succeeded)
        /\ \A i \in 1..Len(data) : data[i] # zeroTransaction

\* C3 (as claimed): a valid top n with n greater than the number g >= 1 of groups
\* does not fail and prints exactly g rows.
C3_TopTruncatesToGroups ==
    (TopValid /\ Cardinality(TopKeys) >= 1 /\ TopN > Cardinality(TopKeys)) =>
        /\ out.fault = "none"
        /\ pc = "prompt"
        /\ Len(out.sections) = 1
        /\ Len(out.sections[1].rows) = Cardinality(TopKeys)

\* C4 (as claimed): a valid top, and each section of a details, whose grouping is
\* empty prints no row and faults nowhere; details prints its three headers.
C4_EmptyGroupingPrintsNoRows ==
    /\ (TopValid /\ TopKeys = {}) =>
          /\ out.fault = "none"
          /\ pc = "prompt"
          /\ PrintedRows = {}
    /\ DetailsValid =>
          /\ out.fault = "none"
          /\ pc = "prompt"
          /\ out.headers = 3
          /\ Len(out.sections) = 3
          /\ DetailsKeys(2) = {} => out.sections[1].rows = <<>>
          /\ DetailsKeys(4) = {} => out.sections[2].rows = <<>>
          /\ DetailsKeys(31) = {} => out.sections[3].rows = <<>>

\* C5 (as claimed): a top, search or details whose arguments fail validation
\* prints a message, reads no record through an unset accessor, prints no row,
\* and leaves the prompt loop running.
C5_ValidationFailureAbortsCommandOnly ==
    ArgumentsInvalid =>
        /\ out.msg # "none"
        /\ out.fault = "none"
        /\ PrintedRows = {}
        /\ pc = "prompt"

\* C6: a call of loadMultipleData with no quarters, from load, reload or startup,
\* returns the no-quarters error, starts no goroutine and leaves the store as it
\* was when the call was made.
C6_NoQuartersFailsAndKeepsStore ==
    [][(pc = "call" /\ Len(cmd.args) = 0) =>
          /\ pc' = "returned"
          /\ lastErr'.kind = "no_quarters"
          /\ tasks' = <<>>
          /\ waitGroup' = 0
          /\ data' = data]_vars

\* reload without quarters has returned the error on a store that holds records
C6_Witness ==
    /\ pc = "returned"
    /\ cmd.name = "reload"
    /\ cmd.args = <<>>
    /\ lastErr.kind = "no_quarters"
    /\ data # <<>>

\* C7 (as claimed): lessLower is a strict total order: irreflexive, antisymmetric,
\* transitive, and for distinct a, b exactly one of a<b, b<a; a strict prefix is
\* less than the longer string; "A" < "b" and "b" < "B2".
C7_StrictTotalOrder ==
    (fpc = "done" /\ fres.kind = "lessLower") =>
        /\ fa = fb => ~fres.value
        /\ fres.value => ~lessLower(fb, fa)
        /\ \A c \in LessStrings : (fres.value /\ lessLower(fb, c)) => lessLower(fa, c)
        /\ fa # fb => (fres.value # lessLower(fb, fa))
        /\ (Len(fa) < Len(fb) /\ SubSeq(fb, 1, Len(fa)) = fa) => fres.value
        /\ (fa = <<65>> /\ fb = <<98>>) => fres.value
        /\ (fa = <<98>> /\ fb = <<66, 50>>) => fres.value

\* C7 (amended): lessLower is a strict weak order whose ties are the strings equal
\* up to case: irreflexive, antisymmetric, transitive; for a, b that differ after
\* lowercasing exactly one of a<b, b<a holds, and for a, b equal after lowercasing
\* neither holds; a strict prefix is less; "A" < "b" and "b" < "B2".
C7_StrictWeakOrderUpToCase ==
    (fpc = "done" /\ fres.kind = "lessLower") =>
        /\ fa = fb => ~fres.value
        /\ fres.value => ~lessLower(fb, fa)
        /\ \A c \in LessStrings : (fres.value /\ lessLower(fb, c)) => lessLower(fa, c)
        /\ StringsToLower(fa) # StringsToLower(fb) => (fres.value # lessLower(fb, fa))
        /\ StringsToLower(fa) = StringsToLower(fb) => (~fres.value /\ ~lessLower(fb, fa))
        /\ (Len(fa) < Len(fb) /\ SubSeq(fb, 1, Len(fa)) = fa) => fres.value
        /\ (fa = <<65>> /\ fb = <<98>>) => fres.value
        /\ (fa = <<98>> /\ fb = <<66, 50>>) => fres.value

\* "b" has been compared with "B2" and found less
C7_Witness ==
    /\ fpc = "done"
    /\ fa = <<98>>
    /\ fb = <<66, 50>>
    /\ fres.value

\* C8 (as claimed): isValidQuarter(s) is true exactly when s has 5 characters, all
\* decimal digits 0-9, and loadData rejects every other string with the
\* invalid-quarter error before any upstream request.
C8_ValidIffFiveDecimalDigits ==
    /\ (fpc = "done" /\ fres.kind = "isValidQuarter") =>
          (fres.value <=> (Len(fa) = 5 /\ AllDecimalDigits(fa)))
    /\ (fpc = "done" /\ fres.kind = "loadData" /\ ~(Len(fa) = 5 /\ AllDecimalDigits(fa))) =>
          /\ fres.value.err.kind = "invalid_quarter"
          /\ ~fres.value.requested

\* C9: a valid top n on a paragraph with at least n groups prints n rows: distinct
\* groups of that paragraph under the role, each with the sum of its
\* transactions' amounts, in non-increasing order, no unprinted group larger than
\* a printed one; on the example store top 1 payers 2 prints [B:30] and
\* top 2 payers 2 prints [B:30, A:10].
C9_TopRanksGroupSums ==
    (TopValid /\ TopN <= Cardinality(TopKeys)) =>
        /\ out.fault = "none"
        /\ Len(out.sections) = 1
        /\ LET rows == out.sections[1].rows
           IN  /\ Len(rows) = TopN
               /\ \A i \in 1..Len(rows) :
                     /\ rows[i].str \in TopKeys
                     /\ rows[i].value = TopSum(rows[i].str)
                     /\ \A j \in 1..Len(rows) : i < j =>
                           /\ rows[i].str # rows[j].str
                           /\ rows[i].value >= rows[j].value
                     /\ \A k \in TopKeys :
                           (\A j \in 1..Len(rows) : rows[j].str # k) =>
                               TopSum(k) <= rows[i].value
               /\ (data = ExampleStore /\ cmd.args = <<<<49>>, StrPayers, <<50>>>>) =>
                     rows = <<[str |-> NameB, value |-> 30]>>
               /\ (data = ExampleStore /\ cmd.args = <<<<50>>, StrPayers, <<50>>>>) =>
                     rows = <<[str |-> NameB, value |-> 30], [str |-> NameA, value |-> 10]>>

\* top 2 payers 2 on the example store has printed B:30 and then A:10
C9_Witness ==
    /\ data = ExampleStore
    /\ cmd = [name |-> "top", args |-> <<<<50>>, StrPayers, <<50>>>>]
    /\ out.fault = "none"
    /\ Len(out.sections) = 1
    /\ out.sections[1].rows =
          <<[str |-> NameB, value |-> 30], [str |-> NameA, value |-> 10]>>

\* C10: at most one goroutine is between the store lock and its unlock, and it
\* holds the lock; the store is always the content at the call followed by whole
\* batches of goroutines that have stored, in some order; a goroutine waiting to
\* record a failure can take the failure lock whenever that lock is free,
\* whoever holds the store lock, and the other way round.
C10_AppendsExclusiveAndWhole ==
    pc = "wait" =>
        /\ Cardinality(InStoreSection) <= 1
        /\ \A i \in InStoreSection : transactionMutex = i
        /\ InStoreSection = {} => transactionMutex = 0
        /\ WholeBatches(data, before, Stored)
        /\ \A i \in DOMAIN tasks :
              /\ (tasks[i].pc = "lockErrors" /\ errorsMutex = 0) => ENABLED goLockErrors(i)
              /\ (tasks[i].pc = "lockTransactions" /\ transactionMutex = 0) =>
                    ENABLED goLockTransactions(i)

\* one goroutine holds the failure lock while another, whose batch is stored,
\* still holds the store lock
C10_Witness ==
    /\ pc = "wait"
    /\ errorsMutex # 0
    /\ transactionMutex # 0
    /\ tasks[transactionMutex].pc = "unlockTransactions"
    /\ data # before

====
